---- MODULE Spec2Model ----
(***************************************************************************)
(* Persistence adapters for process-instance documents (redis, postgres,   *)
(* supabase) and the URI-dispatching Persistency facade.                   *)
(*                                                                         *)
(* Spec       : callers drive one adapter's save/get/update/remove/list.   *)
(*              A call is split where the code awaits the store: the       *)
(*              synchronous part up to the first await is one step, the    *)
(*              store's execution of the command together with the         *)
(*              continuation that reads only the reply is the next.        *)
(* SpecFacade : construction of the facade and its forwarding methods.     *)
(***************************************************************************)
EXTENDS Integers, Sequences, FiniteSets, TLC

VARIABLES
    adapter,    \* which adapter class the callers hold
    store,      \* the backend: key -> stored JSON text
    ops,        \* per caller: the call in progress, or the last one made
    callback,   \* how the callers' completion callbacks behave
    uuidCount,  \* how many ids uuidv4() has handed out
    calls,      \* how many calls the callers have made
    lastSaved,  \* history: id -> document of a save onto an unused id, not written since
    hist,       \* history: the successful saves, while nothing but saves has happened
    facade,     \* the Persistency facade object
    forwarded   \* the last call the facade made on its implementation

vars == <<adapter, store, ops, callback, uuidCount, calls, lastSaved, hist, facade, forwarded>>

\* ---------------------------------------------------------------- bounds
MaxUuid == 1
MaxCalls == 3
MaxFacadeCalls == 2

\* the caller a claim is about, and another one whose commands may overtake its
Callers == {"caller", "other"}

\* ------------------------------------------------------------- JS values
Undefined == [t |-> "undefined", v |-> ""]
Null == [t |-> "null", v |-> ""]
NaN == [t |-> "number", v |-> "NaN"]
Str(s) == [t |-> "string", v |-> s]

\* !v of JavaScript, for the values above
Falsy(v) == v = Undefined \/ v = Null \/ v = NaN \/ v = Str("")

\* doc[k]: a missing property reads as undefined
Prop(doc, k) == IF k \in DOMAIN doc THEN doc[k] ELSE Undefined

\* doc[k] = v
SetProp(doc, k, v) == [x \in DOMAIN doc \cup {k} |-> IF x = k THEN v ELSE doc[x]]

\* ----------------------------------------------------------------- ids
CallerIds == {"a"}
UuidNames == <<"uuid-1", "uuid-2", "uuid-3">>
Uuids == {UuidNames[i] : i \in 1..Len(UuidNames)}

\* uuidv4(): the n-th id generated is different from every id in use
uuidv4(n) == UuidNames[n + 1]

\* ------------------------------------------------------------ documents
Keys == <<"id", "name">>
NameValues == {Str("order-1"), Undefined}
IdValues == {Str("")} \cup {Str(i) : i \in CallerIds}

\* the documents callers pass: a name, and an id or none
Docs ==
    {[name |-> n] : n \in NameValues}
    \cup {[id |-> i, name |-> n] : i \in IdValues, n \in NameValues}

NoDoc == [name |-> Undefined]

\* ----------------------------------------------------------------- JSON
\* JSON.stringify of one value: a string is quoted, NaN and null are written
\* null (undefined is handled by the caller: the property is left out)
JSONLiteral(v) ==
    IF v.t = "string" THEN [lit |-> "string", v |-> v.v]
    ELSE [lit |-> "null", v |-> ""]

\* mutant: only the id is written
JSONStringify_IdOnly(doc) ==
    LET present == SelectSeq(<<"id">>, LAMBDA k : k \in DOMAIN doc /\ doc[k] # Undefined)
    IN [i \in 1..Len(present) |->
            [key |-> present[i], val |-> JSONLiteral(doc[present[i]])]]

\* JSON.stringify(doc): the members in key order, those holding undefined left out
JSONStringify(doc) ==
    LET present == SelectSeq(Keys, LAMBDA k : k \in DOMAIN doc /\ doc[k] # Undefined)
    IN [i \in 1..Len(present) |->
            [key |-> present[i], val |-> JSONLiteral(doc[present[i]])]]

\* JSON.parse of an object text
JSONParse(text) ==
    LET idx(k) == CHOOSE i \in 1..Len(text) : text[i].key = k
    IN [k \in {text[i].key : i \in 1..Len(text)} |->
            IF text[idx(k)].val.lit = "string"
            THEN Str(text[idx(k)].val.v)
            ELSE Null]

\* ------------------------------------------------------- the key-value store
\* `process_instance:${id}`
RedisKey(id) == <<"process_instance:", id>>

NilReply == [nil |-> TRUE, text |-> <<>>]

\* SET key value
RedisSet(s, key, text) == (key :> text) @@ s

\* GET key: the value, or nil
RedisGet(s, key) ==
    IF key \in DOMAIN s THEN [nil |-> FALSE, text |-> s[key]] ELSE NilReply

\* DEL key
RedisDel(s, key) == [k \in DOMAIN s \ {key} |-> s[k]]

\* mutant: the pattern has lost its wildcard
RedisKeys_NoWildcard(s) == {k \in DOMAIN s : k = <<"process_instance:", "">>}

\* KEYS process_instance:*
RedisKeys(s) == {k \in DOMAIN s : k[1] = "process_instance:"}

\* MGET keys: one reply per key asked for, nil for a key that is not there
RedisMget(s, keys) == [i \in 1..Len(keys) |-> RedisGet(s, keys[i])]

\* ------------------------------------------------- the process_instances table
TableKey(id) == <<"process_instances", id>>

\* a row as the client hands it back: the id column and the parsed doc column
\* (created_at and updated_at are not modelled)
Row(s, key) == [id |-> key[2], doc |-> JSONParse(s[key])]

\* INSERT INTO process_instances (id, doc) VALUES ($1, $2) RETURNING *
TableInsert(s, id, doc) ==
    IF TableKey(id) \in DOMAIN s
    THEN [err |-> TRUE, rows |-> <<>>, store |-> s]
    ELSE LET s2 == (TableKey(id) :> JSONStringify(doc)) @@ s
         IN [err |-> FALSE, rows |-> <<Row(s2, TableKey(id))>>, store |-> s2]

\* SELECT * FROM process_instances WHERE id = $1
TableSelect(s, id) ==
    IF TableKey(id) \in DOMAIN s THEN <<Row(s, TableKey(id))>> ELSE <<>>

\* UPDATE process_instances SET doc = $1 WHERE id = $2 RETURNING *
TableUpdate(s, id, doc) ==
    IF TableKey(id) \in DOMAIN s
    THEN LET s2 == (TableKey(id) :> JSONStringify(doc)) @@ s
         IN [err |-> FALSE, rows |-> <<Row(s2, TableKey(id))>>, store |-> s2]
    ELSE [err |-> FALSE, rows |-> <<>>, store |-> s]

\* mutant: the DELETE has lost its WHERE clause
TableDelete_NoWhere(s, id) == [k \in {} |-> s[k]]

\* DELETE FROM process_instances WHERE id = $1
TableDelete(s, id) == [k \in DOMAIN s \ {TableKey(id)} |-> s[k]]

\* the orders in which the store may hand back a set of keys
Orders(S) ==
    {q \in [1..Cardinality(S) -> S] : \A i, j \in 1..Cardinality(S) : i # j => q[i] # q[j]}

\* --------------------------------------------------- what a callback is handed
Item(t, rec, rid) == [t |-> t, rec |-> rec, rid |-> rid]
ItemUndefined == Item("undefined", NoDoc, "")
ItemNull == Item("null", NoDoc, "")
ItemDoc(d) == Item("doc", d, "")
ItemRow(row) == Item("row", row.doc, row.id)

\* rows[0], data[0]
First(rows) == IF Len(rows) = 0 THEN ItemUndefined ELSE ItemRow(rows[1])

\* callback(null, value), callback(null, array), callback(err)
Success(item) == [err |-> "none", val |-> item, list |-> <<>>]
SuccessList(items) == [err |-> "none", val |-> Item("array", NoDoc, ""), list |-> items]
Failure(e) == [err |-> e, val |-> ItemUndefined, list |-> <<>>]

\* the id a record carries: the id column of a row, the id property of a document
RecordId(item) == IF item.t = "row" THEN item.rid ELSE Prop(item.rec, "id").v

\* the document a record carries
Body(item) == item.rec

\* try { ...; callback(null, r) } catch (err) { callback(err) } with a callback that
\* returns or throws: a throw out of callback(null, r) is caught and the callback is
\* called again with it; a throw out of callback(err) rejects the call's promise
Deliver(cb, sig) ==
    IF cb = "returns" THEN [signals |-> <<sig>>, rejected |-> FALSE]
    ELSE IF sig.err = "none" THEN [signals |-> <<sig, Failure("thrown")>>, rejected |-> TRUE]
    ELSE [signals |-> <<sig>>, rejected |-> TRUE]

\* ------------------------------------------------------------ the handlers
\* what a handler leaves behind once the store has answered: the store, the first
\* completion signal, and whether the store held a record under the id
Outcome(s, sig, hit) == [store |-> s, sig |-> sig, hit |-> hit]

\* mutant: an id is generated whether or not the document has one
AssignId_AlwaysFresh(doc, fresh) == fresh

\* const id = doc.id || uuidv4()
AssignId(doc, fresh) == IF Falsy(Prop(doc, "id")) THEN fresh ELSE Prop(doc, "id").v

\* mutant: only a missing id property is refused, an empty id is let through
UpdateRejects_MissingOnly(doc) == "id" \notin DOMAIN doc

\* if (!doc.id) throw new Error('Document must have an id to be updated.')
UpdateRejects(doc) == Falsy(Prop(doc, "id"))

\* RedisPersistency.save after doc.id = id; ok: the client's command succeeds
RedisSave(s, doc, ok) ==
    LET key == RedisKey(Prop(doc, "id").v)
    IN IF ok
       THEN Outcome(RedisSet(s, key, JSONStringify(doc)), Success(ItemDoc(doc)), key \in DOMAIN s)
       ELSE Outcome(s, Failure("store"), key \in DOMAIN s)

\* mutant: a key that is not there is reported as an error
RedisGetResult_NotFoundIsError(reply) ==
    IF reply.nil THEN Failure("notfound") ELSE Success(ItemDoc(JSONParse(reply.text)))

\* if (!data) return callback(null, null); callback(null, JSON.parse(data))
RedisGetResult(reply) ==
    IF reply.nil THEN Success(ItemNull) ELSE Success(ItemDoc(JSONParse(reply.text)))

\* RedisPersistency.get
RedisGetById(s, id, ok) ==
    IF ok
    THEN Outcome(s, RedisGetResult(RedisGet(s, RedisKey(id))), RedisKey(id) \in DOMAIN s)
    ELSE Outcome(s, Failure("store"), RedisKey(id) \in DOMAIN s)

\* RedisPersistency.update after the id check
RedisUpdate(s, doc, ok) ==
    LET key == RedisKey(Prop(doc, "id").v)
    IN IF ok
       THEN Outcome(RedisSet(s, key, JSONStringify(doc)), Success(ItemDoc(doc)), key \in DOMAIN s)
       ELSE Outcome(s, Failure("store"), key \in DOMAIN s)

\* RedisPersistency.remove
RedisRemove(s, id, ok) ==
    IF ok
    THEN Outcome(RedisDel(s, RedisKey(id)), Success(ItemUndefined), RedisKey(id) \in DOMAIN s)
    ELSE Outcome(s, Failure("store"), RedisKey(id) \in DOMAIN s)

\* docs.map(doc => JSON.parse(doc)): JSON.parse(null) reads the text "null"
RedisParseAll(replies) ==
    [i \in 1..Len(replies) |->
        IF replies[i].nil THEN ItemNull ELSE ItemDoc(JSONParse(replies[i].text))]

\* RedisPersistency.list from the reply to MGET on
RedisListResult(s, keys, ok) ==
    IF ok THEN SuccessList(RedisParseAll(RedisMget(s, keys))) ELSE Failure("store")

\* PostgresPersistency.save after doc.id = id: a rejected query is caught
PostgresSave(s, doc, ok) ==
    LET id == Prop(doc, "id").v
        r == TableInsert(s, id, doc)
    IN IF ok /\ ~r.err
       THEN Outcome(r.store, Success(First(r.rows)), TableKey(id) \in DOMAIN s)
       ELSE Outcome(s, Failure("store"), TableKey(id) \in DOMAIN s)

\* PostgresPersistency.get
PostgresGet(s, id, ok) ==
    IF ok
    THEN Outcome(s, Success(First(TableSelect(s, id))), TableKey(id) \in DOMAIN s)
    ELSE Outcome(s, Failure("store"), TableKey(id) \in DOMAIN s)

\* PostgresPersistency.update after the id check
PostgresUpdate(s, doc, ok) ==
    LET id == Prop(doc, "id").v
        r == TableUpdate(s, id, doc)
    IN IF ok /\ ~r.err
       THEN Outcome(r.store, Success(First(r.rows)), TableKey(id) \in DOMAIN s)
       ELSE Outcome(s, Failure("store"), TableKey(id) \in DOMAIN s)

\* PostgresPersistency.remove
PostgresRemove(s, id, ok) ==
    IF ok
    THEN Outcome(TableDelete(s, id), Success(ItemUndefined), TableKey(id) \in DOMAIN s)
    ELSE Outcome(s, Failure("store"), TableKey(id) \in DOMAIN s)

\* PostgresPersistency.list: result.rows, in the order the store hands them back
PostgresList(s, order, ok) ==
    IF ok
    THEN SuccessList([i \in 1..Len(order) |-> ItemRow(Row(s, order[i]))])
    ELSE Failure("store")

\* SupabasePersistency.save: { data, error }; if (error) throw error
SupabaseSave(s, doc, ok) ==
    LET id == Prop(doc, "id").v
        r == TableInsert(s, id, doc)
        error == ~ok \/ r.err
        data == r.rows
    IN IF error
       THEN Outcome(s, Failure("store"), TableKey(id) \in DOMAIN s)
       ELSE Outcome(r.store, Success(First(data)), TableKey(id) \in DOMAIN s)

\* SupabasePersistency.get
SupabaseGet(s, id, ok) ==
    LET error == ~ok
        data == TableSelect(s, id)
    IN IF error
       THEN Outcome(s, Failure("store"), TableKey(id) \in DOMAIN s)
       ELSE Outcome(s, Success(First(data)), TableKey(id) \in DOMAIN s)

\* SupabasePersistency.update after the id check
SupabaseUpdate(s, doc, ok) ==
    LET id == Prop(doc, "id").v
        r == TableUpdate(s, id, doc)
        error == ~ok \/ r.err
        data == r.rows
    IN IF error
       THEN Outcome(s, Failure("store"), TableKey(id) \in DOMAIN s)
       ELSE Outcome(r.store, Success(First(data)), TableKey(id) \in DOMAIN s)

\* SupabasePersistency.remove
SupabaseRemove(s, id, ok) ==
    LET error == ~ok
    IN IF error
       THEN Outcome(s, Failure("store"), TableKey(id) \in DOMAIN s)
       ELSE Outcome(TableDelete(s, id), Success(ItemUndefined), TableKey(id) \in DOMAIN s)

\* SupabasePersistency.list
SupabaseList(s, order, ok) ==
    LET error == ~ok
        data == [i \in 1..Len(order) |-> ItemRow(Row(s, order[i]))]
    IN IF error THEN Failure("store") ELSE SuccessList(data)

\* the adapter's handler for each operation
Save(a, s, doc, ok) ==
    CASE a = "redis" -> RedisSave(s, doc, ok)
      [] a = "postgres" -> PostgresSave(s, doc, ok)
      [] OTHER -> SupabaseSave(s, doc, ok)

Get(a, s, id, ok) ==
    CASE a = "redis" -> RedisGetById(s, id, ok)
      [] a = "postgres" -> PostgresGet(s, id, ok)
      [] OTHER -> SupabaseGet(s, id, ok)

Update(a, s, doc, ok) ==
    CASE a = "redis" -> RedisUpdate(s, doc, ok)
      [] a = "postgres" -> PostgresUpdate(s, doc, ok)
      [] OTHER -> SupabaseUpdate(s, doc, ok)

Remove(a, s, id, ok) ==
    CASE a = "redis" -> RedisRemove(s, id, ok)
      [] a = "postgres" -> PostgresRemove(s, id, ok)
      [] OTHER -> SupabaseRemove(s, id, ok)

\* the store key an id is kept under
KeyOf(a, id) == IF a = "redis" THEN RedisKey(id) ELSE TableKey(id)

\* ------------------------------------------------------------- the callers
Callbacks == {"returns", "throws"}

IdleOp ==
    [kind |-> "none", pc |-> "idle", doc |-> NoDoc, orig |-> NoDoc, id |-> "",
     keys |-> <<>>, raced |-> FALSE, signals |-> <<>>,
     cmds |-> 0, rejected |-> FALSE, hit |-> FALSE]

\* the ids a caller can ask for: its own, and those uuidv4() has handed out
KnownIds == CallerIds \cup {UuidNames[i] : i \in 1..uuidCount}

\* caller c awaits nothing and may call again
Free(c) == ops[c].pc \in {"idle", "done"} /\ calls < MaxCalls

Drop(f, id) == [x \in DOMAIN f \ {id} |-> f[x]]

\* the document a round trip is expected to give back: D, with the id of the
\* returned record where D had none
Expected(orig, rid) ==
    IF Falsy(Prop(orig, "id")) THEN SetProp(orig, "id", Str(rid)) ELSE orig

Impure == [ids |-> {}, n |-> 0, pure |-> FALSE]

\* the call of caller c ends with its callback handed sig; a list of another caller
\* that is between KEYS and MGET has been overtaken if the store changed
Finish(c, out) ==
    LET del == Deliver(callback, out.sig)
    IN /\ ops' = [d \in Callers |->
                    IF d = c
                    THEN [ops[c] EXCEPT !.pc = "done", !.signals = del.signals,
                                        !.rejected = del.rejected, !.hit = out.hit]
                    ELSE IF ops[d].pc = "keys" /\ out.store # store
                    THEN [ops[d] EXCEPT !.raced = TRUE]
                    ELSE ops[d]]
       /\ store' = out.store

FacadeUnchanged == UNCHANGED <<facade, forwarded>>

\* save(doc, callback) up to await this.setAsync / this.pool.query / insert
CallSave(c, d) ==
    /\ Free(c)
    /\ Falsy(Prop(d, "id")) => uuidCount < MaxUuid
    /\ ops' = [ops EXCEPT ![c] =
                [IdleOp EXCEPT !.kind = "save", !.pc = "sent", !.orig = d,
                               !.doc = SetProp(d, "id", Str(AssignId(d, uuidv4(uuidCount)))),
                               !.cmds = 1]]
    /\ uuidCount' = IF Falsy(Prop(d, "id")) THEN uuidCount + 1 ELSE uuidCount
    /\ calls' = calls + 1
    /\ UNCHANGED <<adapter, callback, store, lastSaved, hist>>
    /\ FacadeUnchanged

\* the store executes the write and save's continuation calls back
ExecSave(c, ok) ==
    /\ ops[c].kind = "save" /\ ops[c].pc = "sent"
    /\ LET out == Save(adapter, store, ops[c].doc, ok)
           id == Prop(ops[c].doc, "id").v
           done == out.sig.err = "none"
       IN /\ Finish(c, out)
          /\ lastSaved' =
                IF done /\ ~out.hit
                THEN (id :> Expected(ops[c].orig, RecordId(out.sig.val))) @@ Drop(lastSaved, id)
                ELSE IF done THEN Drop(lastSaved, id)
                ELSE lastSaved
          /\ hist' =
                IF ~hist.pure \/ ~done THEN hist
                ELSE IF out.hit THEN Impure
                ELSE [ids |-> hist.ids \cup {id}, n |-> hist.n + 1, pure |-> TRUE]
    /\ UNCHANGED <<adapter, callback, uuidCount, calls>>
    /\ FacadeUnchanged

\* get(id, callback) up to the await
CallGet(c, id) ==
    /\ Free(c)
    /\ ops' = [ops EXCEPT ![c] =
                [IdleOp EXCEPT !.kind = "get", !.pc = "sent", !.id = id, !.cmds = 1]]
    /\ calls' = calls + 1
    /\ UNCHANGED <<adapter, callback, store, uuidCount, lastSaved, hist>>
    /\ FacadeUnchanged

ExecGet(c, ok) ==
    /\ ops[c].kind = "get" /\ ops[c].pc = "sent"
    /\ Finish(c, Get(adapter, store, ops[c].id, ok))
    /\ UNCHANGED <<adapter, callback, uuidCount, calls, lastSaved, hist>>
    /\ FacadeUnchanged

\* update(doc, callback) up to the await: without an id it throws inside the try,
\* and the catch calls back before anything is sent
CallUpdate(c, d) ==
    /\ Free(c)
    /\ ops' = [ops EXCEPT ![c] =
                IF UpdateRejects(d)
                THEN LET del == Deliver(callback, Failure("validation"))
                     IN [IdleOp EXCEPT !.kind = "update", !.pc = "done", !.orig = d,
                                       !.doc = d, !.signals = del.signals,
                                       !.rejected = del.rejected]
                ELSE [IdleOp EXCEPT !.kind = "update", !.pc = "sent", !.orig = d,
                                    !.doc = d, !.cmds = 1]]
    /\ calls' = calls + 1
    /\ UNCHANGED <<adapter, callback, store, uuidCount, lastSaved, hist>>
    /\ FacadeUnchanged

ExecUpdate(c, ok) ==
    /\ ops[c].kind = "update" /\ ops[c].pc = "sent"
    /\ LET out == Update(adapter, store, ops[c].doc, ok)
           done == out.sig.err = "none"
       IN /\ Finish(c, out)
          /\ lastSaved' = IF done THEN Drop(lastSaved, Prop(ops[c].doc, "id").v) ELSE lastSaved
          /\ hist' = IF done THEN Impure ELSE hist
    /\ UNCHANGED <<adapter, callback, uuidCount, calls>>
    /\ FacadeUnchanged

\* remove(id, callback) up to the await
CallRemove(c, id) ==
    /\ Free(c)
    /\ ops' = [ops EXCEPT ![c] =
                [IdleOp EXCEPT !.kind = "remove", !.pc = "sent", !.id = id, !.cmds = 1]]
    /\ calls' = calls + 1
    /\ UNCHANGED <<adapter, callback, store, uuidCount, lastSaved, hist>>
    /\ FacadeUnchanged

ExecRemove(c, ok) ==
    /\ ops[c].kind = "remove" /\ ops[c].pc = "sent"
    /\ LET out == Remove(adapter, store, ops[c].id, ok)
           done == out.sig.err = "none"
       IN /\ Finish(c, out)
          /\ lastSaved' = IF done THEN Drop(lastSaved, ops[c].id) ELSE lastSaved
          /\ hist' = IF done THEN Impure ELSE hist
    /\ UNCHANGED <<adapter, callback, uuidCount, calls>>
    /\ FacadeUnchanged

\* list(callback) up to the first await
CallList(c) ==
    /\ Free(c)
    /\ ops' = [ops EXCEPT ![c] =
                [IdleOp EXCEPT !.kind = "list", !.pc = "sent", !.cmds = 1]]
    /\ calls' = calls + 1
    /\ UNCHANGED <<adapter, callback, store, uuidCount, lastSaved, hist>>
    /\ FacadeUnchanged

\* postgres, supabase: SELECT * and the callback
ExecSelectAll(c, ok) ==
    /\ ops[c].kind = "list" /\ ops[c].pc = "sent" /\ adapter # "redis"
    /\ \E order \in Orders(DOMAIN store) :
          Finish(c, Outcome(store,
                            IF adapter = "postgres" THEN PostgresList(store, order, ok)
                            ELSE SupabaseList(store, order, ok),
                            FALSE))
    /\ UNCHANGED <<adapter, callback, uuidCount, calls, lastSaved, hist>>
    /\ FacadeUnchanged

\* redis: KEYS answers; with no keys list calls back, else it sends MGET
ExecKeys(c, ok) ==
    /\ ops[c].kind = "list" /\ ops[c].pc = "sent" /\ adapter = "redis"
    /\ \E order \in Orders(RedisKeys(store)) :
          IF ~ok THEN Finish(c, Outcome(store, Failure("store"), FALSE))
          ELSE IF Len(order) = 0 THEN Finish(c, Outcome(store, SuccessList(<<>>), FALSE))
          ELSE /\ ops' = [ops EXCEPT ![c].pc = "keys", ![c].keys = order, ![c].cmds = 2]
               /\ store' = store
    /\ UNCHANGED <<adapter, callback, uuidCount, calls, lastSaved, hist>>
    /\ FacadeUnchanged

\* redis: MGET answers and list calls back
ExecMget(c, ok) ==
    /\ ops[c].kind = "list" /\ ops[c].pc = "keys"
    /\ Finish(c, Outcome(store, RedisListResult(store, ops[c].keys, ok), FALSE))
    /\ UNCHANGED <<adapter, callback, uuidCount, calls, lastSaved, hist>>
    /\ FacadeUnchanged

FacadeIdle == [state |-> "none", uri |-> <<>>, implementation |-> "none", arg |-> "none", calls |-> 0]
NoForward == [target |-> "none", method |-> "none", args |-> <<>>]

Init ==
    /\ adapter \in {"redis", "postgres", "supabase"}
    /\ callback \in Callbacks
    /\ store = <<>>
    /\ ops = [c \in Callers |-> IdleOp]
    /\ uuidCount = 0
    /\ calls = 0
    /\ lastSaved = <<>>
    /\ hist = [ids |-> {}, n |-> 0, pure |-> TRUE]
    /\ facade = FacadeIdle
    /\ forwarded = NoForward

Next ==
    \/ \E c \in Callers, d \in Docs : CallSave(c, d)
    \/ \E c \in Callers, ok \in BOOLEAN : ExecSave(c, ok)
    \/ \E c \in Callers, id \in KnownIds : CallGet(c, id)
    \/ \E c \in Callers, ok \in BOOLEAN : ExecGet(c, ok)
    \/ \E c \in Callers, d \in Docs : CallUpdate(c, d)
    \/ \E c \in Callers, ok \in BOOLEAN : ExecUpdate(c, ok)
    \/ \E c \in Callers, id \in KnownIds : CallRemove(c, id)
    \/ \E c \in Callers, ok \in BOOLEAN : ExecRemove(c, ok)
    \/ \E c \in Callers : CallList(c)
    \/ \E c \in Callers, ok \in BOOLEAN : ExecSelectAll(c, ok)
    \/ \E c \in Callers, ok \in BOOLEAN : ExecKeys(c, ok)
    \/ \E c \in Callers, ok \in BOOLEAN : ExecMget(c, ok)

Spec == Init /\ [][Next]_vars

\* --------------------------------------------------------------- the facade
\* a uri, as the pieces the constructor's prefix tests tell apart
URIs ==
    {<<"mongodb://", "localhost/bpmn">>, <<"mongodb://", "db.example/bpmn">>,
     <<"postgres://", "localhost/bpmn">>, <<"supabase://", "project">>,
     <<"redis://", "localhost:6379">>, <<"ftp://", "x">>,
     <<"instances/", "redis://">>, <<"instances.json">>}

\* the options the constructor may be handed: none, or an object whose uri is a
\* string (<<>>: the empty string, or no uri property)
Options ==
    {[present |-> FALSE, uri |-> <<>>]}
    \cup {[present |-> TRUE, uri |-> u] : u \in URIs \cup {<<>>}}

\* uri.indexOf(prefix)
IndexOf(uri, prefix) ==
    IF \E i \in 1..Len(uri) : uri[i] = prefix
    THEN (CHOOSE i \in 1..Len(uri) : uri[i] = prefix /\ \A j \in 1..(i - 1) : uri[j] # prefix) - 1
    ELSE -1

\* the properties of what each adapter module under lib/persistency exports:
\* module.exports = RedisPersistency (PostgresPersistency, SupabasePersistency) is
\* the class itself, which has no static property
ClassExportProperties == {}

\* file.js and mongodb.js export an object with a Persistency constructor that has
\* the methods the facade forwards to
ObjectExportClass(file) ==
    IF file = "./mongodb.js" THEN "MongoDBPersistency" ELSE "FilePersistency"

ObjectExportMethods == {"persist", "load", "loadAll", "close"}

\* the methods of the RedisPersistency, PostgresPersistency and SupabasePersistency classes
ClassMethods == {"save", "get", "update", "remove", "list"}

\* require(file).Persistency
RequirePersistency(file) ==
    IF file \in {"./redis.js", "./postgresql.js", "./supabase.js"}
    THEN IF "Persistency" \in ClassExportProperties THEN "class" ELSE "undefined"
    ELSE ObjectExportClass(file)

\* the methods an implementation has
MethodsOf(impl) ==
    IF impl \in {"MongoDBPersistency", "FilePersistency"}
    THEN ObjectExportMethods
    ELSE ClassMethods

\* the branch of the constructor a uri takes: the module required, and what its
\* constructor is handed
Branch(uri) ==
    IF IndexOf(uri, "mongodb://") = 0 THEN [file |-> "./mongodb.js", arg |-> "uri, options"]
    ELSE IF IndexOf(uri, "postgres://") = 0 THEN [file |-> "./postgresql.js", arg |-> "options"]
    ELSE IF IndexOf(uri, "supabase://") = 0 THEN [file |-> "./supabase.js", arg |-> "options"]
    ELSE IF IndexOf(uri, "redis://") = 0 THEN [file |-> "./redis.js", arg |-> "options"]
    ELSE [file |-> "./file.js", arg |-> "uri"]

\* new Persistency(options): new of an undefined class throws a TypeError
Construct(options) ==
    IF ~options.present \/ options.uri = <<>>
    THEN [FacadeIdle EXCEPT !.state = "threw Error"]
    ELSE LET b == Branch(options.uri)
             class == RequirePersistency(b.file)
         IN IF class = "undefined"
            THEN [FacadeIdle EXCEPT !.state = "threw TypeError", !.uri = options.uri]
            ELSE [FacadeIdle EXCEPT !.state = "bound", !.uri = options.uri,
                                    !.implementation = class, !.arg = b.arg]

\* this.implementation.method(args): a method the implementation lacks throws
Forward(f, method, args) ==
    IF method \in MethodsOf(f.implementation)
    THEN [target |-> f.implementation, method |-> method, args |-> args]
    ELSE [target |-> f.implementation, method |-> "threw TypeError", args |-> <<>>]

FacadeArgs == {"x", "y"}

AdaptersUnchanged == UNCHANGED <<adapter, store, ops, callback, uuidCount, calls, lastSaved, hist>>

New(options) ==
    /\ facade.state = "none"
    /\ facade' = Construct(options)
    /\ UNCHANGED forwarded
    /\ AdaptersUnchanged

FacadeCall(method, args) ==
    /\ facade.state = "bound"
    /\ facade.calls < MaxFacadeCalls
    /\ forwarded' = Forward(facade, method, args)
    /\ facade' = [facade EXCEPT !.calls = @ + 1]
    /\ AdaptersUnchanged

\* Persistency.prototype.persist
Persist(persistentData, done) == FacadeCall("persist", <<persistentData, done>>)

\* Persistency.prototype.load
Load(processId, processName, done) == FacadeCall("load", <<processId, processName, done>>)

\* Persistency.prototype.loadAll
LoadAll(processName, done) == FacadeCall("loadAll", <<processName, done>>)

\* Persistency.prototype.close
Close(done) == FacadeCall("close", <<done>>)

InitFacade ==
    /\ adapter = "redis"
    /\ callback = "returns"
    /\ store = <<>>
    /\ ops = [c \in Callers |-> IdleOp]
    /\ uuidCount = 0
    /\ calls = 0
    /\ lastSaved = <<>>
    /\ hist = [ids |-> {}, n |-> 0, pure |-> TRUE]
    /\ facade = FacadeIdle
    /\ forwarded = NoForward

NextFacade ==
    \/ \E o \in Options : New(o)
    \/ \E d \in FacadeArgs, done \in FacadeArgs : Persist(d, done)
    \/ \E i \in FacadeArgs, n \in FacadeArgs, done \in FacadeArgs : Load(i, n, done)
    \/ \E n \in FacadeArgs, done \in FacadeArgs : LoadAll(n, done)
    \/ \E done \in FacadeArgs : Close(done)

SpecFacade == InitFacade /\ [][NextFacade]_vars

\* ---------------------------------------------------------------- the claims
\* the completion an operation reports: the first call of its callback
FirstSignal(op) == op.signals[1]

Completed(op) == op.pc = "done" /\ Len(op.signals) >= 1

IsRecord(item) == item.t \in {"doc", "row"}

NotFound(item) == item.t \in {"null", "undefined"}

\* the document carries an id of its own (a missing or empty id is none)
HasOwnId(doc) == "id" \in DOMAIN doc /\ doc["id"] # Str("")

\* every property of the document is a value JSON can write down
JSONRepresentable(doc) == \A k \in DOMAIN doc : doc[k] # Undefined /\ doc[k] # NaN

GetCompletes(c) == ops[c].kind = "get" /\ ops[c].pc = "sent" /\ ops'[c].pc = "done"

RemoveCompletes(c) == ops[c].kind = "remove" /\ ops[c].pc = "sent" /\ ops'[c].pc = "done"

ListCompletes(c) == ops[c].kind = "list" /\ ops[c].pc \in {"sent", "keys"} /\ ops'[c].pc = "done"

\* C1 as stated: for every document D saved onto an unused id and not written since,
\* a get of the returned id that succeeds hands back a record whose body equals D
\* (with the id injected where D had none).
C1_RoundTripEveryDocument ==
    [][\A c \in Callers :
          (GetCompletes(c) /\ ops[c].id \in DOMAIN lastSaved
             /\ FirstSignal(ops'[c]).err = "none")
          => /\ IsRecord(FirstSignal(ops'[c]).val)
             /\ Body(FirstSignal(ops'[c]).val) = lastSaved[ops[c].id]]_vars

\* C1 amended: the round trip holds for every document D all of whose properties are
\* JSON-representable: save(D) onto an unused id, then get of the returned id, hands
\* back a record whose body equals D, with the id injected where D had none.
C1_RoundTripJSONDocuments ==
    [][\A c \in Callers :
          (GetCompletes(c) /\ ops[c].id \in DOMAIN lastSaved
             /\ JSONRepresentable(lastSaved[ops[c].id])
             /\ FirstSignal(ops'[c]).err = "none")
          => /\ IsRecord(FirstSignal(ops'[c]).val)
             /\ Body(FirstSignal(ops'[c]).val) = lastSaved[ops[c].id]]_vars

\* a get has handed back the document saved without an id, under the generated id
C1_Witness ==
    \E c \in Callers :
        /\ ops[c].kind = "get" /\ Completed(ops[c]) /\ ops[c].id \in Uuids
        /\ FirstSignal(ops[c]).err = "none"
        /\ IsRecord(FirstSignal(ops[c]).val)
        /\ ops[c].id \in DOMAIN lastSaved
        /\ JSONRepresentable(lastSaved[ops[c].id])
        /\ Body(FirstSignal(ops[c]).val) = lastSaved[ops[c].id]
        /\ Body(FirstSignal(ops[c]).val) = [id |-> Str(ops[c].id), name |-> Str("order-1")]

\* C2: every operation calls its callback exactly once, and never the failure path
\* after the success path.
C2_CallbackExactlyOnce ==
    \A c \in Callers :
        /\ ops[c].pc = "done" => Len(ops[c].signals) = 1
        /\ ops[c].pc # "done" => Len(ops[c].signals) = 0

\* C3: in the postgres and supabase adapters an update whose id matches no stored
\* record completes with an error.
C3_UpdateUnknownIdFails ==
    \A c \in Callers :
        (adapter \in {"postgres", "supabase"} /\ ops[c].kind = "update"
           /\ Completed(ops[c]) /\ ops[c].cmds = 1 /\ ~ops[c].hit)
        => FirstSignal(ops[c]).err # "none"

C4_State ==
    \A c \in Callers :
        (ops[c].kind = "update" /\ ~HasOwnId(ops[c].orig))
        => /\ Completed(ops[c])
           /\ FirstSignal(ops[c]).err = "validation"
           /\ ops[c].cmds = 0

C4_Step ==
    \A c \in Callers :
        (ops'[c] # ops[c] /\ ops'[c].kind = "update" /\ ~HasOwnId(ops'[c].orig))
        => store' = store

\* C4: an update of a document without an id completes with the validation error,
\* no command is sent to the store, and the step leaves the store as it was.
C4_UpdateWithoutIdRejected == []C4_State /\ [][C4_Step]_vars

\* an update without an id has been rejected while the store holds a record
C4_Witness ==
    \E c \in Callers :
        /\ ops[c].kind = "update" /\ ~HasOwnId(ops[c].orig) /\ Completed(ops[c])
        /\ FirstSignal(ops[c]).err = "validation"
        /\ DOMAIN store # {}

\* C5: a save that succeeds returns a record with the document's own id when it has
\* one, and with a generated, non-empty id otherwise; a get that finds a record
\* returns a record carrying the id asked for.
C5_SaveAssignsIdentifier ==
    \A c \in Callers :
        /\ (ops[c].kind = "save" /\ Completed(ops[c]) /\ FirstSignal(ops[c]).err = "none")
           => /\ IsRecord(FirstSignal(ops[c]).val)
              /\ HasOwnId(ops[c].orig)
                 => RecordId(FirstSignal(ops[c]).val) = ops[c].orig["id"].v
              /\ ~HasOwnId(ops[c].orig)
                 => /\ RecordId(FirstSignal(ops[c]).val) \in {UuidNames[i] : i \in 1..uuidCount}
                    /\ RecordId(FirstSignal(ops[c]).val) # ""
                    /\ RecordId(FirstSignal(ops[c]).val) \notin CallerIds
        /\ (ops[c].kind = "get" /\ Completed(ops[c]) /\ FirstSignal(ops[c]).err = "none"
              /\ ops[c].hit)
           => /\ IsRecord(FirstSignal(ops[c]).val)
              /\ RecordId(FirstSignal(ops[c]).val) = ops[c].id

\* a save without an id has returned a generated id and a get of it has found it
C5_Witness ==
    \E c, d \in Callers :
        /\ ops[c].kind = "save" /\ Completed(ops[c]) /\ ~HasOwnId(ops[c].orig)
        /\ FirstSignal(ops[c]).err = "none"
        /\ ops[d].kind = "get" /\ Completed(ops[d]) /\ ops[d].hit
        /\ FirstSignal(ops[d]).err = "none"
        /\ ops[d].id = RecordId(FirstSignal(ops[c]).val)

\* C6: a get of an id with no stored record, answered by the store, completes with
\* success and a not-found result; it reports no error, and with a callback that
\* returns nothing is thrown.
C6_GetMissingIsNotFound ==
    \A c \in Callers :
        (ops[c].kind = "get" /\ Completed(ops[c]) /\ ~ops[c].hit
           /\ FirstSignal(ops[c]).err # "store")
        => /\ FirstSignal(ops[c]).err = "none"
           /\ NotFound(FirstSignal(ops[c]).val)
           /\ callback = "returns" => (~ops[c].rejected /\ Len(ops[c].signals) = 1)

\* a get of a generated id has found no record, beside the remove that deleted the
\* record saved under it
C6_Witness ==
    \E c, d \in Callers :
        /\ ops[c].kind = "get" /\ Completed(ops[c]) /\ ~ops[c].hit
        /\ FirstSignal(ops[c]).err = "none"
        /\ NotFound(FirstSignal(ops[c]).val)
        /\ ops[c].id \in Uuids
        /\ ops[d].kind = "remove" /\ Completed(ops[d]) /\ ops[d].hit
        /\ FirstSignal(ops[d]).err = "none"
        /\ ops[d].id = ops[c].id

\* C7: a remove answered by the store completes without error; on an id with no
\* record it leaves the store as it was; afterwards the id has no record and every
\* other record is untouched.
C7_RemoveIdempotent ==
    [][\A c \in Callers :
          (RemoveCompletes(c) /\ FirstSignal(ops'[c]).err # "store")
          => LET key == KeyOf(adapter, ops[c].id)
             IN /\ FirstSignal(ops'[c]).err = "none"
                /\ key \notin DOMAIN store => store' = store
                /\ key \notin DOMAIN store'
                /\ \A k \in DOMAIN store \ {key} : k \in DOMAIN store' /\ store'[k] = store[k]]_vars

\* a remove of an id with no record has completed without error beside another record
C7_Witness ==
    \E c \in Callers :
        /\ ops[c].kind = "remove" /\ Completed(ops[c]) /\ ~ops[c].hit
        /\ FirstSignal(ops[c]).err = "none"
        /\ DOMAIN store # {}

\* C8: after N successful saves of documents with distinct ids into the empty store
\* and nothing else, a list that is not overtaken returns N records whose ids are
\* the ids saved.
C8_ListAfterSaves ==
    [][\A c \in Callers :
          (ListCompletes(c) /\ hist.pure /\ ~ops[c].raced
             /\ FirstSignal(ops'[c]).err = "none")
          => LET got == FirstSignal(ops'[c]).list
             IN /\ Len(got) = hist.n
                /\ \A i \in 1..Len(got) : IsRecord(got[i])
                /\ {RecordId(got[i]) : i \in 1..Len(got)} = hist.ids]_vars

\* a list after two saves has returned two records
C8_Witness ==
    \E c \in Callers :
        /\ ops[c].kind = "list" /\ Completed(ops[c]) /\ ~ops[c].raced
        /\ FirstSignal(ops[c]).err = "none"
        /\ hist.pure /\ hist.n = 2
        /\ Len(FirstSignal(ops[c]).list) = 2

\* C9: constructed with a non-empty uri the facade is bound to the adapter of the
\* uri's scheme, and to the file adapter for any other uri.
C9_FacadeBindsByScheme ==
    (facade.state # "none" /\ facade.uri # <<>>)
    => /\ facade.state = "bound"
       /\ facade.implementation =
            CASE facade.uri[1] = "mongodb://" -> "MongoDBPersistency"
              [] facade.uri[1] = "postgres://" -> "PostgresPersistency"
              [] facade.uri[1] = "supabase://" -> "SupabasePersistency"
              [] facade.uri[1] = "redis://" -> "RedisPersistency"
              [] OTHER -> "FilePersistency"

\* C10: a redis list that succeeds never hands back a null entry, whatever runs
\* between its KEYS and its MGET.
C10_ListHasNoNullEntry ==
    \A c \in Callers :
        (ops[c].kind = "list" /\ Completed(ops[c]) /\ FirstSignal(ops[c]).err = "none")
        => \A i \in 1..Len(FirstSignal(ops[c]).list) : FirstSignal(ops[c]).list[i].t # "null"

====
